---- MODULE Spec2Model ----
(***************************************************************************)
(* A model of src/main.py: a Streamlit script that geocodes an address,    *)
(* queries the nearby-search endpoint and renders the venues whose rating  *)
(* reaches min_rating.                                                     *)
(*                                                                         *)
(* The script main() runs from top to bottom on every page load and on     *)
(* every widget interaction.  A run that presses the search button blocks  *)
(* on two HTTP calls; the model splits the run at these two calls (pc).    *)
(*                                                                         *)
(* Ratings are kept in tenths: 4.0 is 40, 3.9 is 39.                       *)
(* User-facing texts are Japanese in the source; the model names them by   *)
(* ASCII strings.                                                          *)
(***************************************************************************)
EXTENDS Integers, Sequences, FiniteSets, TLC

VARIABLES
    api_key,      \* os.getenv("GOOGLE_API_KEY") of the process
    address,      \* value of the address text_input
    keyword,      \* value of the keyword text_input
    place_type,   \* value of the selectbox
    pressed,      \* st.button returned True in the current run
    pc,           \* position of the current run: "idle", "geocode", "places"
    ui,           \* elements the current run has put on the page, in order
    calls,        \* HTTP GETs the current run has issued, in order
    geo,          \* the geocoding response the current run received
    coords,       \* lat, lng returned by get_coordinates
    places,       \* the nearby-search response of the last search_nearby_places call
    results,      \* the upstream places handed to the list comprehension
    min_rating,   \* min_rating of the last search_nearby_places call
    ret,          \* outcome of the last search_nearby_places call
    exc,          \* exception raised inside the try block of the current run
    uncaught      \* an exception has escaped main()

vars == <<api_key, address, keyword, place_type, pressed, pc, ui, calls, geo,
          coords, places, results, min_rating, ret, exc, uncaught>>

----------------------------------------------------------------------------
\* Bounds of the model

\* longest upstream `results` array of a places response
MaxResults == 3

\* Program constants

\* min_rating=4.0, in tenths
DefaultMinRating == 40
\* radius=1000
DefaultRadius == 1000
\* zoom_start=15
ZoomStart == 15

----------------------------------------------------------------------------
\* Python / JSON values

\* Python None, where the other values are strings
None == "<None>"
\* a string key that a JSON object does not hold, a query parameter not sent
Missing == "<missing>"

\* a JSON number, JSON null, and an absent key, for the `rating` field
Num(n) == [t |-> "num", v |-> n]
JNull == [t |-> "null", v |-> 0]
Absent == [t |-> "absent", v |-> 0]

\* `not x` for the strings and None the script tests
Falsy(x) == x = None \/ x = ""

\* dict.get(key, default): the default only replaces an absent key
Get(value, default) == IF value.t = "absent" THEN default ELSE value

----------------------------------------------------------------------------
\* Inputs

ApiKeys == {None, "", "KEY"}
Addresses == {"", "Tokyo"}
Keywords == {"", "sushi"}
\* the selectbox options (two of the 26), "None" is the no-filter sentinel
PlaceTypes == {"None", "cafe"}

\* geometry.location of a geocoding result or of a place
Loc(lat, lng) == [t |-> "loc", lat |-> lat, lng |-> lng]
\* a place without the geometry (or location) key
NoGeometry == [t |-> "absent", lat |-> 0, lng |-> 0]
Locations == {Loc(35, 135), Loc(36, 140)}
NoCoords == Loc(0, 0)

RatingValues == {Num(39), Num(40), JNull, Absent}
\* geometry of a place: one location, or no geometry key
Geometries == {Loc(35, 136), NoGeometry}
Vicinity == "1-1 Ginza"

\* a place of the nearby-search response; the i-th place of a response is
\* named after its position, so that the places of a response are distinct
Place(i, rating, geometry) ==
    [name |-> ToString(i), rating |-> rating, vicinity |-> Vicinity,
     geometry |-> geometry]

\* the `results` arrays of n places
PlaceSeqs(n) ==
    { [i \in 1..n |-> Place(i, f[i][1], f[i][2])] :
        f \in [1..n -> RatingValues \X Geometries] }

\* what requests.get and response.json() can produce for the places call
TransportError == [kind |-> "transport_error"]
BadJson == [kind |-> "bad_json"]
PlacesBody(has_results, rs) ==
    [kind |-> "json", has_results |-> has_results, results |-> rs]
PlacesResponses ==
    {TransportError, BadJson, PlacesBody(FALSE, <<>>)}
    \cup { PlacesBody(TRUE, rs) : rs \in UNION { PlaceSeqs(n) : n \in 0..MaxResults } }

\* what requests.get and response.json() can produce for the geocoding call
GeoBody(status, rs) == [kind |-> "json", status |-> status, results |-> rs]
GeoStatuses == {"OK", "ZERO_RESULTS", "REQUEST_DENIED", Missing}
GeoResults == {<<>>, <<Loc(35, 135)>>, <<Loc(36, 140), Loc(35, 135)>>}
GeoResponses ==
    {TransportError, BadJson}
    \cup { GeoBody(s, rs) : s \in GeoStatuses, rs \in GeoResults }
NoResponse == [kind |-> "none"]

\* min_rating values a caller of search_nearby_places passes
MinRatings == {0, DefaultMinRating}

----------------------------------------------------------------------------
\* Exceptions

Exc(type, text) == [type |-> type, text |-> text]
NoExc == Exc("none", "")

\* raise Exception("...") of get_coordinates
MsgGeocodeFailed == "the address could not be resolved"

\* requests.get fails (unreachable host, connection refused)
ConnectionError == Exc("ConnectionError", "connection refused")
\* response.json() on a body that is not JSON
JSONDecodeError == Exc("JSONDecodeError", "Expecting value: line 1 column 1 (char 0)")
\* dict[key] on an absent key; str(KeyError) is the quoted key
KeyError(key) == Exc("KeyError", key)
\* list[0] on an empty list
IndexError == Exc("IndexError", "list index out of range")
\* None >= 4.0
TypeError == Exc("TypeError", "'>=' not supported between instances of 'NoneType' and 'float'")

\* outcome of a function call: a returned value or a raised exception;
\* `at` is the index of the place the comprehension was at when it raised
Return(value) == [kind |-> "return", value |-> value, exc |-> NoExc, at |-> 0]
Raise(e, i) == [kind |-> "raise", value |-> <<>>, exc |-> e, at |-> i]
NoCall == [kind |-> "none", value |-> <<>>, exc |-> NoExc, at |-> 0]

----------------------------------------------------------------------------
\* get_coordinates

GeocodeCall(addr, key) == [api |-> "geocode", address |-> addr, key |-> key]

\* get_coordinates without the test of the status (line 34)
get_coordinates_NoStatusCheck(response) ==
    IF response.kind = "transport_error" THEN Raise(ConnectionError, 0)
    ELSE IF response.kind = "bad_json" THEN Raise(JSONDecodeError, 0)
    ELSE IF response.results = <<>> THEN Raise(IndexError, 0)
    ELSE Return(response.results[1])

\* lines 32-38, given what the GET produced
get_coordinates(response) ==
    IF response.kind = "transport_error" THEN Raise(ConnectionError, 0)
    ELSE IF response.kind = "bad_json" THEN Raise(JSONDecodeError, 0)
    ELSE IF response.status = Missing THEN Raise(KeyError("'status'"), 0)
    ELSE IF response.status = "OK"
         THEN IF response.results = <<>> THEN Raise(IndexError, 0)
              ELSE Return(response.results[1])
         ELSE Raise(Exc("Exception", MsgGeocodeFailed), 0)

----------------------------------------------------------------------------
\* search_nearby_places

\* the query of the nearby-search URL; keyword and type are appended only
\* when truthy
PlacesCall(location, key, radius, kw, ptype) ==
    [api |-> "nearbysearch", location |-> location, radius |-> radius,
     key |-> key,
     keyword |-> IF Falsy(kw) THEN Missing ELSE kw,
     type |-> IF Falsy(ptype) THEN Missing ELSE ptype]

\* response.json().get("results", [])
JsonResults(response) ==
    IF response.has_results THEN response.results ELSE <<>>

\* the filter with the comparison reversed: <= for >=
RatingTest_Reversed(place, min) ==
    LET r == Get(place.rating, Num(0))
    IN  IF r.t = "null" THEN "TypeError"
        ELSE IF r.v <= min THEN "pass" ELSE "skip"

\* the filter with an exclusive bound: > for >=
RatingTest_Strict(place, min) ==
    LET r == Get(place.rating, Num(0))
    IN  IF r.t = "null" THEN "TypeError"
        ELSE IF r.v > min THEN "pass" ELSE "skip"

\* place.get("rating", 0) >= min_rating : "TypeError" when the rating is null
RatingTest(place, min) ==
    LET r == Get(place.rating, Num(0))
    IN  IF r.t = "null" THEN "TypeError"
        ELSE IF r.v >= min THEN "pass" ELSE "skip"

\* Restaurant(place.get("name"), place.get("rating"), place.get("vicinity"),
\*            place["geometry"]["location"]["lat"], ...["lng"])
Restaurant(place) ==
    [name |-> place.name, rating |-> Get(place.rating, JNull),
     address |-> place.vicinity,
     lat |-> place.geometry.lat, lng |-> place.geometry.lng]

\* the comprehension with the Restaurant built before the rating is tested
RECURSIVE Comprehension_GeometryFirst(_, _, _, _)
Comprehension_GeometryFirst(rs, i, acc, min) ==
    IF i > Len(rs) THEN Return(acc)
    ELSE IF rs[i].geometry.t = "absent" THEN Raise(KeyError("'geometry'"), i)
    ELSE LET test == RatingTest(rs[i], min)
         IN  IF test = "TypeError" THEN Raise(TypeError, i)
             ELSE IF test = "skip"
                  THEN Comprehension_GeometryFirst(rs, i + 1, acc, min)
                  ELSE Comprehension_GeometryFirst(rs, i + 1,
                           Append(acc, Restaurant(rs[i])), min)

\* the list comprehension of lines 65-74, from place i on, acc built so far
RECURSIVE Comprehension(_, _, _, _)
Comprehension(rs, i, acc, min) ==
    IF i > Len(rs) THEN Return(acc)
    ELSE LET test == RatingTest(rs[i], min)
         IN  IF test = "TypeError" THEN Raise(TypeError, i)
             ELSE IF test = "skip" THEN Comprehension(rs, i + 1, acc, min)
             ELSE IF rs[i].geometry.t = "absent"
                  THEN Raise(KeyError("'geometry'"), i)
                  ELSE Comprehension(rs, i + 1, Append(acc, Restaurant(rs[i])), min)

\* search_nearby_places with response.json()["results"] for .get("results", [])
search_nearby_places_Subscript(response, min) ==
    IF response.kind = "transport_error" THEN Raise(ConnectionError, 0)
    ELSE IF response.kind = "bad_json" THEN Raise(JSONDecodeError, 0)
    ELSE IF ~response.has_results THEN Raise(KeyError("'results'"), 0)
    ELSE Comprehension(response.results, 1, <<>>, min)

\* lines 62-75, given what the GET produced
search_nearby_places(response, min) ==
    IF response.kind = "transport_error" THEN Raise(ConnectionError, 0)
    ELSE IF response.kind = "bad_json" THEN Raise(JSONDecodeError, 0)
    ELSE Comprehension(JsonResults(response), 1, <<>>, min)

----------------------------------------------------------------------------
\* main: the page

MsgNoApiKey == "GOOGLE_API_KEY is not set; set it in the .env file"
MsgNoAddress == "enter an address"
MsgNoResults == "no place rated 4 or more matches the conditions"
MsgResults == "results:"
ErrPrefix == "an error occurred: "

\* an element on the page: kind and body
Elem(kind, body) == [kind |-> kind, body |-> body]
\* st.error(text): the text as the sequence of its parts
StError(parts) == Elem("error", parts)
StWrite(text) == Elem("write", <<text>>)
Button == Elem("button", <<"search">>)

\* lines 108-116: map centred on the geocoded point, one marker per venue
FoliumMap(centre, restaurants) ==
    Elem("map",
         [location |-> <<centre.lat, centre.lng>>, zoom_start |-> ZoomStart,
          markers |-> [i \in 1..Len(restaurants) |->
              [at |-> <<restaurants[i].lat, restaurants[i].lng>>,
               popup |-> <<restaurants[i].name, restaurants[i].rating,
                           restaurants[i].address>>,
               tooltip |-> restaurants[i].name]]])

\* lines 119-125: the Name / Rating table
DataFrame(restaurants) ==
    Elem("dataframe",
         [i \in 1..Len(restaurants) |->
              <<restaurants[i].name, restaurants[i].rating>>])

\* line 81 as `if api_key is None`
KeyConfigured_NoneOnly(key) == key # None

\* line 81: `if not api_key` is not taken
KeyConfigured(key) == ~Falsy(key)

\* line 95 without the test
AddressGiven_Unchecked(a) == TRUE

\* line 95: `if not address` is not taken
AddressGiven(a) == ~Falsy(a)

\* lines 78-94: what a run puts on the page before it tests the button
ScriptHead(key) ==
    IF ~KeyConfigured(key) THEN <<StError(<<MsgNoApiKey>>)>>
    ELSE <<Elem("title", <<"restaurant search">>),
           Elem("text_input", <<"address">>),
           Elem("text_input", <<"keyword">>),
           Elem("selectbox", <<"place_type">>),
           Button>>

Kinds(page) == { page[i].kind : i \in 1..Len(page) }
Offers(page, kind) == kind \in Kinds(page)
IsWidget(kind) == kind \in {"text_input", "selectbox", "button"}

\* lines 91-92
TypeFilter(selected) == IF selected = "None" THEN None ELSE selected

\* a handler for the failure of get_coordinates only
Catches_OnlyGeocodeFailure(e) == e.type = "Exception"

\* `except Exception`: every exception of the model derives from Exception
Catches(e) ==
    e.type \in {"Exception", "ConnectionError", "JSONDecodeError", "KeyError",
                "IndexError", "TypeError"}

\* the page without the test of line 103
Render_NoEmptyCheck(page, centre, restaurants) ==
    page \o <<FoliumMap(centre, restaurants), StWrite(MsgResults),
              DataFrame(restaurants)>>

\* lines 103-125: the page after search_nearby_places returned
Render(page, centre, restaurants) ==
    IF restaurants = <<>> THEN Append(page, StWrite(MsgNoResults))
    ELSE page \o <<FoliumMap(centre, restaurants), StWrite(MsgResults),
                   DataFrame(restaurants)>>

----------------------------------------------------------------------------
\* main: the runs of the script

\* the locals of a run that has not reached the try block
FreshRun ==
    /\ geo' = NoResponse
    /\ coords' = NoCoords
    /\ places' = NoResponse
    /\ results' = <<>>
    /\ min_rating' = DefaultMinRating
    /\ ret' = NoCall
    /\ exc' = NoExc

\* the process has started and no run of the script has happened yet
Init ==
    /\ api_key \in ApiKeys
    /\ address = ""
    /\ keyword = ""
    /\ place_type = "None"
    /\ pressed = FALSE
    /\ pc = "idle"
    /\ ui = <<>>
    /\ calls = <<>>
    /\ geo = NoResponse
    /\ coords = NoCoords
    /\ places = NoResponse
    /\ results = <<>>
    /\ min_rating = DefaultMinRating
    /\ ret = NoCall
    /\ exc = NoExc
    /\ uncaught = FALSE

\* the page is loaded: the widgets are at their defaults and the script runs
\* with the button not pressed
Load ==
    /\ pc = "idle"
    /\ address' = ""
    /\ keyword' = ""
    /\ place_type' = "None"
    /\ pressed' = FALSE
    /\ ui' = ScriptHead(api_key)
    /\ calls' = <<>>
    /\ FreshRun
    /\ UNCHANGED <<api_key, pc, uncaught>>

\* the user changes a widget: the script runs with the button not pressed
Edit(a, k, t) ==
    /\ pc = "idle"
    /\ Offers(ui, "text_input")
    /\ <<a, k, t>> # <<address, keyword, place_type>>
    /\ address' = a
    /\ keyword' = k
    /\ place_type' = t
    /\ pressed' = FALSE
    /\ ui' = ScriptHead(api_key)
    /\ calls' = <<>>
    /\ FreshRun
    /\ UNCHANGED <<api_key, pc, uncaught>>

\* the user presses the button: lines 78-100, up to the geocoding GET
Submit ==
    /\ pc = "idle"
    /\ Offers(ui, "button")
    /\ pressed' = TRUE
    /\ FreshRun
    /\ IF ~KeyConfigured(api_key)
       THEN /\ ui' = ScriptHead(api_key)
            /\ pc' = "idle"
            /\ calls' = <<>>
       ELSE IF ~AddressGiven(address)
       THEN /\ ui' = Append(ScriptHead(api_key), StError(<<MsgNoAddress>>))
            /\ pc' = "idle"
            /\ calls' = <<>>
       ELSE /\ ui' = ScriptHead(api_key)
            /\ pc' = "geocode"
            /\ calls' = <<GeocodeCall(address, api_key)>>
    /\ UNCHANGED <<api_key, address, keyword, place_type, uncaught>>

\* an exception leaves the try block: line 127-128, or it escapes main
Handle(e) ==
    /\ exc' = e
    /\ pc' = "idle"
    /\ IF Catches(e)
       THEN /\ ui' = Append(ui, StError(<<ErrPrefix, e.text>>))
            /\ UNCHANGED uncaught
       ELSE /\ ui' = Append(ui, Elem("traceback", <<e.type, e.text>>))
            /\ uncaught' = TRUE

\* the geocoding GET ends: the rest of get_coordinates, then line 101 up to
\* the nearby-search GET
GeocodeResponse(response) ==
    /\ pc = "geocode"
    /\ geo' = response
    /\ LET out == get_coordinates(response)
       IN  IF out.kind = "raise"
           THEN /\ Handle(out.exc)
                /\ UNCHANGED <<calls, coords>>
           ELSE /\ coords' = out.value
                /\ calls' = Append(calls,
                       PlacesCall(out.value, api_key, DefaultRadius, keyword,
                                  TypeFilter(place_type)))
                /\ pc' = "places"
                /\ UNCHANGED <<ui, exc, uncaught>>
    /\ UNCHANGED <<api_key, address, keyword, place_type, pressed, places,
                   results, min_rating, ret>>

\* the nearby-search GET ends: the rest of search_nearby_places, then lines
\* 103-128
PlacesResponse(response) ==
    /\ pc = "places"
    /\ places' = response
    /\ results' = IF response.kind = "json" THEN JsonResults(response) ELSE <<>>
    /\ min_rating' = DefaultMinRating
    /\ LET out == search_nearby_places(response, DefaultMinRating)
       IN  /\ ret' = out
           /\ IF out.kind = "raise"
              THEN Handle(out.exc)
              ELSE /\ ui' = Render(ui, coords, out.value)
                   /\ pc' = "idle"
                   /\ UNCHANGED <<exc, uncaught>>
    /\ UNCHANGED <<api_key, address, keyword, place_type, pressed, calls, geo,
                   coords>>

Next ==
    \/ Load
    \/ \E a \in Addresses, k \in Keywords, t \in PlaceTypes : Edit(a, k, t)
    \/ Submit
    \/ pc = "geocode" /\ \E response \in GeoResponses : GeocodeResponse(response)
    \/ pc = "places" /\ \E response \in PlacesResponses : PlacesResponse(response)

Spec == Init /\ [][Next]_vars

----------------------------------------------------------------------------
\* search_nearby_places called directly, once, with any min_rating

CallSearch(location, min, k, t, response) ==
    /\ ret = NoCall
    /\ calls' = <<PlacesCall(location, api_key, DefaultRadius, k, t)>>
    /\ coords' = location
    /\ places' = response
    /\ results' = IF response.kind = "json" THEN JsonResults(response) ELSE <<>>
    /\ min_rating' = min
    /\ ret' = search_nearby_places(response, min)
    /\ UNCHANGED <<api_key, address, keyword, place_type, pressed, pc, ui, geo,
                   exc, uncaught>>

NextFn ==
    /\ ret = NoCall
    /\ \E location \in Locations, min \in MinRatings, k \in Keywords,
          t \in {None, "cafe"}, response \in PlacesResponses :
           CallSearch(location, min, k, t, response)

SpecFn == Init /\ [][NextFn]_vars

----------------------------------------------------------------------------
\* Properties

Returned == ret.kind = "return"
Raised == ret.kind = "raise"
Last(page) == page[Len(page)]
Shows(e, kind, body) == e.kind = kind /\ e.body = body
CountKind(page, kind) == Cardinality({ i \in 1..Len(page) : page[i].kind = kind })
IssuedTo(api) == \E i \in 1..Len(calls) : calls[i].api = api

\* the rating of an upstream place reaches min, a rating that is not given
\* counting as 0; a null rating reaches nothing
Passes(place, min) ==
    \/ place.rating.t = "num" /\ place.rating.v >= min
    \/ place.rating.t = "absent" /\ 0 >= min

\* the venue that stands for an upstream place
VenueOf(place) ==
    [name |-> place.name,
     rating |-> IF place.rating.t = "num" THEN place.rating ELSE JNull,
     address |-> place.vicinity,
     lat |-> place.geometry.lat, lng |-> place.geometry.lng]

\* C1 as stated: every venue of a returned list stores a rating that is a
\* number >= min_rating, whatever min_rating is.
C1_Original ==
    Returned =>
        \A i \in 1..Len(ret.value) :
            /\ ret.value[i].rating.t = "num"
            /\ ret.value[i].rating.v >= min_rating

\* C1 amended: every venue of a returned list has a rating >= min_rating
\* once a rating that is not given counts as 0; when min_rating > 0 the
\* stored rating is a number >= min_rating.
C1_RatingAtLeastMin ==
    Returned =>
        \A i \in 1..Len(ret.value) :
            LET r == ret.value[i].rating
            IN  \/ r.t = "num" /\ r.v >= min_rating
                \/ r.t = "null" /\ 0 >= min_rating

\* C1 witness: a list is returned from which the filter has dropped a place, under the
\* default min_rating
C1_Witness ==
    /\ Returned
    /\ min_rating = DefaultMinRating
    /\ Len(ret.value) >= 1
    /\ \E i \in 1..Len(results) : results[i].rating = Num(39)

\* C2: once the geocoding response of a search action has a status other
\* than "OK", the action has ended with the error shown to the user, its text
\* being the exception's, and no nearby-search call has been issued in it.
C2_FailedGeocodeStopsSearch ==
    (geo.kind = "json" /\ geo.status # "OK") =>
        /\ pc = "idle"
        /\ exc.type # "none"
        /\ geo.status # Missing => exc = Exc("Exception", MsgGeocodeFailed)
        /\ Shows(Last(ui), "error", <<ErrPrefix, exc.text>>)
        /\ ~IssuedTo("nearbysearch")
        /\ places = NoResponse

\* C2 witness: a geocoding response with a failure status and a result in it has arrived
C2_Witness ==
    /\ pressed
    /\ geo.kind = "json"
    /\ geo.status = "ZERO_RESULTS"
    /\ geo.results # <<>>

\* C3: after a press of the button with an empty address the page ends with
\* the validation message and the run has issued no HTTP call.
C3_EmptyAddressNoCalls ==
    (pressed /\ address = "") =>
        /\ pc = "idle"
        /\ calls = <<>>
        /\ geo = NoResponse
        /\ places = NoResponse
        /\ Shows(Last(ui), "error", <<MsgNoAddress>>)
        /\ CountKind(ui, "error") = 1

\* C3 witness: the button has been pressed with an empty address and a keyword
C3_Witness ==
    /\ pressed
    /\ address = ""
    /\ keyword = "sushi"
    /\ api_key = "KEY"

\* C4: without an API key every run shows the configuration error and nothing
\* else (no input widget, no button), no HTTP call is ever issued, and no
\* exception escapes.
C4_NoKeyBlocksEverything ==
    Falsy(api_key) =>
        /\ ui # <<>> => (Len(ui) = 1 /\ Shows(ui[1], "error", <<MsgNoApiKey>>))
        /\ \A i \in 1..Len(ui) : ~IsWidget(ui[i].kind)
        /\ ~pressed
        /\ pc = "idle"
        /\ calls = <<>>
        /\ geo = NoResponse
        /\ places = NoResponse
        /\ ~uncaught

\* C4 witness: the script has run without an API key
C4_Witness ==
    /\ api_key = None
    /\ Len(ui) = 1
    /\ ui[1].kind = "error"

\* C5: no exception escapes main; an exception raised in a search action has
\* ended the action with exactly one error message, shown last, made of the
\* prefix and the exception's text; and after every run of a configured
\* process the button is offered again and Submit is enabled.
C5_ErrorsCaughtAndRecoverable ==
    /\ ~uncaught
    /\ CountKind(ui, "traceback") = 0
    /\ exc.type # "none" =>
           /\ pc = "idle"
           /\ CountKind(ui, "error") = 1
           /\ Shows(Last(ui), "error", <<ErrPrefix, exc.text>>)
    /\ (pc = "idle" /\ ui # <<>> /\ ~Falsy(api_key)) =>
           /\ Offers(ui, "button")
           /\ ENABLED Submit

\* C5 witness: the geocoding call failed at the transport level, the text of the
\* exception is on the page and the button is offered
C5_Witness ==
    /\ geo.kind = "transport_error"
    /\ exc = ConnectionError
    /\ Shows(Last(ui), "error", <<ErrPrefix, "connection refused">>)
    /\ Offers(ui, "button")

\* C6: a returned list is, venue by venue, the upstream places whose rating
\* passes the filter, in upstream order, each exactly once.
C6_StableFilter ==
    Returned =>
        LET kept == SelectSeq(results, LAMBDA place : Passes(place, min_rating))
        IN  /\ Len(ret.value) = Len(kept)
            /\ \A i \in 1..Len(kept) : ret.value[i] = VenueOf(kept[i])

\* C6 witness: two venues are returned and an upstream place between them was dropped
C6_Witness ==
    /\ Returned
    /\ Len(results) = 3
    /\ Len(ret.value) = 2
    /\ ret.value[1].name = "1"
    /\ ret.value[2].name = "3"

\* C7: a places response whose body has no `results` field makes
\* search_nearby_places return the empty list, raising nothing.
C7_NoResultsFieldIsEmpty ==
    (places.kind = "json" /\ ~places.has_results) =>
        ret = Return(<<>>)

\* C7 witness: a body without `results` has been handed to search_nearby_places
C7_Witness ==
    /\ places.kind = "json"
    /\ ~places.has_results
    /\ Returned

\* C8 as stated: with min_rating > 0, a place whose rating is not given
\* (absent or null) is never in the returned list and never is the place at
\* which the call raises.
C8_MissingRatingIsZero ==
    min_rating > 0 =>
        \A i \in 1..Len(results) :
            results[i].rating.t \in {"absent", "null"} =>
                /\ ~(Raised /\ ret.at = i)
                /\ Returned =>
                       \A j \in 1..Len(ret.value) : ret.value[j].name # results[i].name

\* C9: a search action whose geocoding succeeded and whose filtered list is
\* empty shows the empty-state message last, and neither a map, a table nor
\* an error; no exception is recorded.
C9_EmptyResultIsNotAnError ==
    (pc = "idle" /\ pressed /\ Returned /\ ret.value = <<>>) =>
        /\ Shows(Last(ui), "write", <<MsgNoResults>>)
        /\ CountKind(ui, "write") = 1
        /\ CountKind(ui, "map") = 0
        /\ CountKind(ui, "dataframe") = 0
        /\ CountKind(ui, "error") = 0
        /\ exc = NoExc
        /\ ~uncaught

\* C9 witness: the geocoding succeeded and every upstream place was filtered out
C9_Witness ==
    /\ pc = "idle"
    /\ pressed
    /\ geo.kind = "json"
    /\ geo.status = "OK"
    /\ Returned
    /\ ret.value = <<>>
    /\ Len(results) >= 1

\* C10: the call is all-or-nothing. When it raises, no list is returned; it
\* raises for a missing geometry only at a place whose rating passes the
\* filter; and when it returns, every place without geometry was one whose
\* rating does not pass (it was skipped without its geometry being read).
C10_AllOrNothing ==
    /\ Raised => ret.value = <<>>
    /\ (Raised /\ ret.exc.type = "KeyError") =>
           /\ ret.at \in 1..Len(results)
           /\ results[ret.at].geometry.t = "absent"
           /\ Passes(results[ret.at], min_rating)
           /\ \A i \in 1..(ret.at - 1) :
                  Passes(results[i], min_rating) => results[i].geometry.t = "loc"
    /\ Returned =>
           \A i \in 1..Len(results) :
               results[i].geometry.t = "absent" => ~Passes(results[i], min_rating)

\* C10 witness: a place without geometry is skipped, the next place is kept, and the call
\* raises at a third, whose rating passes and which has no geometry
C10_Witness ==
    /\ Raised
    /\ ret.exc.type = "KeyError"
    /\ ret.at = 3
    /\ results[1].geometry.t = "absent"
    /\ ~Passes(results[1], min_rating)
    /\ results[2].geometry.t = "loc"
    /\ Passes(results[2], min_rating)

====
